---- MODULE Spec2Model ----
(***************************************************************************)
(* Techloopio/extractor_tool, package extractor: the three-stage pipeline  *)
(* of RepoExtractor.Extract.                                               *)
(*   stage 1  getCommits + commitWorker     paginated harvest of git log   *)
(*   stage 2  analyseLibraries + libraryWorker   per-commit analysis       *)
(*   stage 3  export                        fold into day buckets, write   *)
(*                                                                         *)
(* Strings whose inner structure the code looks at are tuples of their     *)
(* fields: a date string is the tuple of its fields in the order of its    *)
(* layout, a library identifier is the tuple of its path segments.  The    *)
(* empty string of such a kind is <<>>.                                    *)
(***************************************************************************)
EXTENDS Integers, Sequences, FiniteSets, Bags, TLC

\* ------------------------------------------------------------- bounds
MaxArrive == 3       \* enriched commits offered to the aggregator (SpecFold)
MaxPages == 3        \* the history has fewer than MaxPages full pages, plus one commit
MaxCPU == 2          \* runtime.NumCPU() is at most this

\* ------------------------------------------------------- small helpers
Range(s) == {s[i] : i \in 1..Len(s)}

RECURSIVE SumSeq(_)
SumSeq(s) == IF s = <<>> THEN 0 ELSE Head(s) + SumSeq(Tail(s))

\* ------------------------------------------------ dates (time package)
\* time.Parse(layout, s) for the layout "2006-01-02 15:04:05 -0700":
\* s = <<year, month, day, hour, minute, zone offset in minutes>>.  The
\* result keeps the wall clock fields and the offset of the string; on an
\* error the zero Time (January 1, year 1, 00:00 UTC) is returned with it.
timeParse(dateString) ==
    IF Len(dateString) = 6
    THEN [err |-> FALSE, Year |-> dateString[1], Month |-> dateString[2],
          Day |-> dateString[3], Hour |-> dateString[4],
          Minute |-> dateString[5], Offset |-> dateString[6]]
    ELSE [err |-> TRUE, Year |-> 1, Month |-> 1, Day |-> 1, Hour |-> 0,
          Minute |-> 0, Offset |-> 0]

\* time.Date(year, month, day, 0, 0, 0, 0, time.UTC)
timeDateUTC(year, month, day) ==
    [err |-> FALSE, Year |-> year, Month |-> month, Day |-> day, Hour |-> 0,
     Minute |-> 0, Offset |-> 0]

\* Time.String(): "2006-01-02 15:04:05.999999999 -0700 MST", fields in
\* that order, each of fixed width.
timeString(t) == <<t.Year, t.Month, t.Day, t.Hour, t.Minute, t.Offset>>

\* The Go string order (<) on two strings of the layout above: field by
\* field from the left.
RECURSIVE StringLess(_, _)
StringLess(a, b) ==
    IF a = <<>> THEN b # <<>>
    ELSE IF b = <<>> THEN FALSE
    ELSE IF Head(a) # Head(b) THEN Head(a) < Head(b)
    ELSE StringLess(Tail(a), Tail(b))

getStartOfDayFromStringDate(dateString) ==
    LET commitDate == timeParse(dateString)
    IN  timeDateUTC(commitDate.Year, commitDate.Month, commitDate.Day)

\* ------------------------------------------------------ slice helpers
contains(slice, value) == \E i \in 1..Len(slice) : slice[i] = value

\* index of the first bucket with that Date (0-based, as in the code), -1
\* when there is none
commitContainsExistingDate_Never(slice, value) == -1

commitContainsExistingDate(slice, value) ==
    IF \E i \in 1..Len(slice) : slice[i].Date = value
    THEN (CHOOSE i \in 1..Len(slice) :
              /\ slice[i].Date = value
              /\ \A j \in 1..(i - 1) : slice[j].Date # value) - 1
    ELSE -1

RECURSIVE removeDuplicateLoop(_, _, _)
removeDuplicateLoop(slice, allKeys, list) ==
    IF slice = <<>> THEN list
    ELSE IF Head(slice) \in allKeys
         THEN removeDuplicateLoop(Tail(slice), allKeys, list)
         ELSE removeDuplicateLoop(Tail(slice), allKeys \cup {Head(slice)},
                                  Append(list, Head(slice)))

removeDuplicateStrings_Keep(slice) == slice

removeDuplicateStrings(slice) == removeDuplicateLoop(slice, {}, <<>>)

addUniqueEmailToCommitAuthorEmailsSlice_Always(slice, email) == Append(slice, email)

addUniqueEmailToCommitAuthorEmailsSlice(slice, email) ==
    IF ~contains(slice, email) THEN Append(slice, email) ELSE slice

getCommitJSonSuffix(commitSliceLength, commitIndex) ==
    IF commitIndex < commitSliceLength - 1 THEN "," ELSE ""

\* --------------------------------- language detection, analyzer registry
\* What the working tree of the analysed repository holds, by path (the
\* same at every revision): the language DetectLanguageFromFile finds in
\* the content, the import list ExtractLibraries finds in it, and whether
\* `git show <hash>:<path>` succeeds.
Paths == {"README", "a.go", "b.go", "c.py", "d.md", "e.h", "f.h", "g.go", "h.zz"}

FileContent(path) ==
    CASE path = "a.go" -> [readable |-> TRUE, lang |-> "Go",
                           imports |-> << <<"fmt">>, <<"fmt">> >>]
      [] path = "b.go" -> [readable |-> TRUE, lang |-> "Go",
                           imports |-> << <<"os">>, <<"fmt">> >>]
      [] path = "c.py" -> [readable |-> TRUE, lang |-> "Python",
                           imports |-> << <<"..", "util">>, <<"util">> >>]
      [] path = "d.md" -> [readable |-> TRUE, lang |-> "Markdown", imports |-> <<>>]
      [] path = "e.h"  -> [readable |-> TRUE, lang |-> "C",
                           imports |-> << <<"stdio.h">> >>]
      [] OTHER         -> [readable |-> FALSE, lang |-> "", imports |-> <<>>]

\* filepath.Ext without its leading dot; "" when the path has none
filepathExt(path) ==
    CASE path \in {"a.go", "b.go", "g.go"} -> "go"
      [] path = "c.py" -> "py"
      [] path = "d.md" -> "md"
      [] path \in {"e.h", "f.h"} -> "h"
      [] path = "h.zz" -> "zz"
      [] OTHER -> ""

\* languagedetection: an ambiguous extension needs the file's content
ShouldUseFile(extension) == extension = "h"

DetectLanguageFromExtension(extension) ==
    CASE extension = "go" -> "Go"
      [] extension = "py" -> "Python"
      [] extension = "md" -> "Markdown"
      [] OTHER -> ""

DetectLanguageFromFile(path, fileContents) == fileContents.lang

\* getFileContent: the content, or an error
getFileContent(commitHash, filePath) ==
    [err |-> ~FileContent(filePath).readable, fileContents |-> FileContent(filePath)]

\* librarydetection.AddAnalyzer calls of initAnalyzers
initAnalyzers ==
    {"Go", "C", "C++", "C#", "Java", "JavaScript", "Kotlin", "TypeScript",
     "Perl", "PHP", "Python", "Ruby", "Swift"}

\* librarydetection.GetAnalyzer(lang): an error for an unregistered language
GetAnalyzer(lang) == [err |-> lang \notin initAnalyzers]

\* analyzer.ExtractLibraries(string(fileContents))
ExtractLibraries(fileContents) == fileContents.imports

\* strings.Replace(fileLibrary, "../", "", -1)
stripRelative(fileLibrary) == SelectSeq(fileLibrary, LAMBDA seg : seg # "..")

\* the loop over fileLibraries
stripAll(fileLibraries) ==
    [index \in 1..Len(fileLibraries) |-> stripRelative(fileLibraries[index])]

\* ------------------------------------------ libraryWorker, one changed file
\* The body of the loop over commitToAnalyse.ChangedFiles below the deadline
\* check, for file n: the language it writes into c.ChangedFiles[n] (write
\* is FALSE when it writes none) and the libraries map it leaves.
analyseFile(commitHash, fileChange, libraries, SkipLibraries) ==
    LET skip == [write |-> FALSE, lang |-> "", libraries |-> libraries]
        extension == filepathExt(fileChange.Path)
        shown == getFileContent(commitHash, fileChange.Path)
        lang == IF ShouldUseFile(extension)
                THEN DetectLanguageFromFile(fileChange.Path, shown.fileContents)
                ELSE DetectLanguageFromExtension(extension)
        fileLibraries == stripAll(ExtractLibraries(shown.fileContents))
        old == IF lang \in DOMAIN libraries THEN libraries[lang] ELSE <<>>
    IN  IF extension = "" THEN skip
        ELSE IF ShouldUseFile(extension) /\ shown.err THEN skip
        ELSE IF lang = "" THEN skip
        ELSE IF SkipLibraries \/ GetAnalyzer(lang).err \/ shown.err
             THEN [write |-> TRUE, lang |-> lang, libraries |-> libraries]
        ELSE [write |-> TRUE, lang |-> lang,
              libraries |-> [k \in DOMAIN libraries \cup {lang} |->
                                IF k = lang THEN old \o fileLibraries
                                ELSE libraries[k]]]

\* The empty map of libraries.
emptyLibraries == [k \in {} |-> <<>>]

\* The commit a worker that meets no deadline sends for commitToAnalyse:
\* every file analysed in turn.
RECURSIVE analyseFrom(_, _, _, _)
analyseFrom(commitToAnalyse, n, files, libraries) ==
    IF n > Len(commitToAnalyse.ChangedFiles)
    THEN [Hash |-> commitToAnalyse.Hash, AuthorEmail |-> commitToAnalyse.AuthorEmail,
          Date |-> commitToAnalyse.Date, ChangedFiles |-> files,
          Libraries |-> libraries]
    ELSE LET r == analyseFile(commitToAnalyse.Hash, commitToAnalyse.ChangedFiles[n],
                              libraries, FALSE)
         IN  analyseFrom(commitToAnalyse, n + 1,
                         IF r.write THEN [files EXCEPT ![n].Language = r.lang]
                                    ELSE files,
                         r.libraries)

analysed(commitToAnalyse) ==
    analyseFrom(commitToAnalyse, 1, commitToAnalyse.ChangedFiles, emptyLibraries)

\* ------------------------------------------------- export, one fold step
\* obfuscation.Obfuscate(&optimizedCommit): replaces the identifying fields
\* of the bucket, its author emails, by their digests.
md5Of(email) ==
    CASE email = "ann@x" -> "md5(ann@x)"
      [] email = "bob@x" -> "md5(bob@x)"
      [] OTHER -> "md5(?)"

Obfuscate(optimizedCommit) ==
    [optimizedCommit EXCEPT !.AuthorEmails = [i \in 1..Len(@) |-> md5Of(@[i])]]

\* the loop over commitFromPipeline.ChangedFiles
RECURSIVE commitLanguagesLoop(_, _)
commitLanguagesLoop(files, commitLanguages) ==
    IF files = <<>> THEN commitLanguages
    ELSE commitLanguagesLoop(Tail(files),
            IF ~contains(commitLanguages, Head(files).Language)
               /\ Head(files).Language # ""
            THEN Append(commitLanguages, Head(files).Language)
            ELSE commitLanguages)

\* the loop over newLibrary appending what the bucket's list lacks
RECURSIVE appendMissing(_, _)
appendMissing(list, newLibrary) ==
    IF newLibrary = <<>> THEN list
    ELSE appendMissing(IF ~contains(list, Head(newLibrary))
                       THEN Append(list, Head(newLibrary)) ELSE list,
                       Tail(newLibrary))

\* the libraries map of a bucket after a commit's libraries are merged in
mergeLibraries(bucketLibraries, commitLibraries) ==
    [k \in DOMAIN bucketLibraries \cup DOMAIN commitLibraries |->
        IF k \notin DOMAIN commitLibraries THEN bucketLibraries[k]
        ELSE IF k \in DOMAIN bucketLibraries
             THEN appendMissing(bucketLibraries[k], commitLibraries[k])
             ELSE removeDuplicateStrings(commitLibraries[k])]

\* the bucket of the else branch, before the optional obfuscation
newBucket(commitFromPipeline, date, commitLanguages, ins, dels) ==
    [AuthorEmails |-> <<commitFromPipeline.AuthorEmail>>,
     Date |-> date,
     Languages |-> commitLanguages,
     Libraries |-> [k \in DOMAIN commitFromPipeline.Libraries |->
                       removeDuplicateStrings(commitFromPipeline.Libraries[k])],
     Insertions |-> ins, Deletions |-> dels, Commits |-> 1]

\* the bucket of the if branch
mergedBucket_SameCount(bucket, commitFromPipeline, ins, dels) ==
    [bucket EXCEPT
        !.Libraries = mergeLibraries(@, commitFromPipeline.Libraries),
        !.Deletions = @ + dels,
        !.Insertions = @ + ins,
        !.AuthorEmails =
            addUniqueEmailToCommitAuthorEmailsSlice(@, commitFromPipeline.AuthorEmail)]

mergedBucket(bucket, commitFromPipeline, ins, dels) ==
    [bucket EXCEPT
        !.Libraries = mergeLibraries(@, commitFromPipeline.Libraries),
        !.Commits = @ + 1,
        !.Deletions = @ + dels,
        !.Insertions = @ + ins,
        !.AuthorEmails =
            addUniqueEmailToCommitAuthorEmailsSlice(@, commitFromPipeline.AuthorEmail)]

\* case commitFromPipeline := <-r.commitPipeline of export: the new value of
\* preparedCommitsDataForExport
foldCommit(prepared, commitFromPipeline, HashImportant) ==
    LET commitDateStartHour == getStartOfDayFromStringDate(commitFromPipeline.Date)
        files == commitFromPipeline.ChangedFiles
        commitLanguages == commitLanguagesLoop(files, <<>>)
        commitInsertions == SumSeq([i \in 1..Len(files) |-> files[i].Insertions])
        commitDeletions == SumSeq([i \in 1..Len(files) |-> files[i].Deletions])
        index == commitContainsExistingDate(prepared, timeString(commitDateStartHour))
        optimizedCommit == newBucket(commitFromPipeline, timeString(commitDateStartHour),
                                     commitLanguages, commitInsertions, commitDeletions)
    IN  IF index > -1
        THEN [prepared EXCEPT ![index + 1] =
                 mergedBucket(@, commitFromPipeline, commitInsertions, commitDeletions)]
        ELSE Append(prepared, IF HashImportant THEN Obfuscate(optimizedCommit)
                              ELSE optimizedCommit)

\* sort.Slice(prepared, Date less): insertion of each bucket before the
\* first one with a greater Date
RECURSIVE insertByDate(_, _)
insertByDate(sorted, bucket) ==
    IF sorted = <<>> THEN <<bucket>>
    ELSE IF StringLess(bucket.Date, Head(sorted).Date) THEN <<bucket>> \o sorted
    ELSE <<Head(sorted)>> \o insertByDate(Tail(sorted), bucket)

sortSlice_Keep(slice) == slice

RECURSIVE sortSlice(_)
sortSlice(slice) ==
    IF slice = <<>> THEN <<>>
    ELSE insertByDate(sortSlice(SubSeq(slice, 1, Len(slice) - 1)), slice[Len(slice)])

\* the loop writing the sorted buckets: one line per bucket json.Marshal
\* accepts, the bucket followed by its suffix
RECURSIVE writeLoop(_, _, _, _)
writeLoop(sorted, i, marshalErr, lines) ==
    IF i > Len(sorted) THEN lines
    ELSE writeLoop(sorted, i + 1, marshalErr,
            IF sorted[i].Date \in marshalErr THEN lines
            ELSE Append(lines, [commitData |-> sorted[i],
                                suffix |-> getCommitJSonSuffix(Len(sorted), i - 1)]))

\* =================================================================== state
VARIABLES
    \* the run's inputs
    gitLog,          \* the history `git log` prints, newest commit first
    NumCPU,          \* runtime.NumCPU()
    UserEmails,      \* r.UserEmails
    TimeLimit,       \* r.TimeLimit, 0 for none
    HashImportant,   \* r.HashImportant
    SkipLibraries,   \* r.SkipLibraries
    ctxDone,         \* ctx.Done() is closed: the deadline has expired
    \* Extract
    pc,              \* where Extract is: "getCommits", "export", "returned"
    \* getCommits and its commitWorkers
    gc,              \* where getCommits is: "launch", "select", "sendJob", "returned"
    x,               \* the counter of the launch loop
    lastOffset,
    res,             \* the batch received and not yet appended to commits
    commits,
    workersReturnedNoMore,
    jobsClosed,      \* close(jobs) of getCommits was called
    issued,          \* history: the offsets of the jobs sent, in order
    commitWorkers,   \* bag of the commitWorker goroutines' local states
    cmd,             \* the git subprocesses: how many cmd.Start() has started,
                     \* how many were waited for and their pipes closed
    \* analyseLibraries and its libraryWorkers
    userCommits,     \* r.userCommits; the ChangedFile objects live here
    jobs,            \* the buffered jobs channel of analyseLibraries
    results,         \* number of values in its buffered results channel
    al,              \* where analyseLibraries is: "idle", "collect", "signal", "done"
    a,               \* the counter of its collecting loop
    libraryWorkers,  \* bag of the libraryWorker goroutines' local states
    langWrites,      \* history: writes of Language per changed file
    completions,     \* history: sends on results per user commit
    \* export
    preparedCommitsDataForExport,
    folded,          \* history: the commits received from r.commitPipeline, in order
    output,          \* the lines written between "[" and "]"
    \* the aggregator alone (SpecFold)
    arrival,         \* the enriched commits that will arrive
    pending          \* the indices of arrival not yet sent

inputVars == <<gitLog, NumCPU, UserEmails, TimeLimit, HashImportant, SkipLibraries>>
harvestVars == <<gc, x, lastOffset, res, commits, workersReturnedNoMore, jobsClosed,
                 issued, commitWorkers, cmd>>
analysisVars == <<userCommits, jobs, results, al, a, libraryWorkers, langWrites,
                  completions>>
analysisVarsButWorkers == <<userCommits, jobs, results, al, a, langWrites, completions>>
exportVars == <<preparedCommitsDataForExport, folded, output>>
foldVars == <<arrival, pending>>
vars == <<inputVars, ctxDone, pc, harvestVars, analysisVars, exportVars, foldVars>>

\* ------------------------------------------------ export, the two cases
\* The loop of export ends: sort, then write every bucket json.Marshal
\* accepts.  json.Marshal fails for the buckets whose Date is in marshalErr.
exportFinish(marshalErr) ==
    LET sorted == sortSlice(preparedCommitsDataForExport)
    IN  /\ preparedCommitsDataForExport' = sorted
        /\ output' = writeLoop(sorted, 1, marshalErr, <<>>)
        /\ pc' = "returned"
        /\ ctxDone' = (ctxDone \/ TimeLimit # 0)      \* defer cancel() of Extract

bucketDates == {preparedCommitsDataForExport[i].Date :
                    i \in 1..Len(preparedCommitsDataForExport)}

\* =============================================== the aggregator alone
\* Commits as the harvest builds them: the parsed header fields and the
\* changed files in the order of the numstat lines.
changedFile(path, ins, dels) ==
    [Path |-> path, Insertions |-> ins, Deletions |-> dels, Language |-> ""]

commitOf(hash, email, date, files) ==
    [Hash |-> hash, AuthorEmail |-> email, Date |-> date, ChangedFiles |-> files]

\* The commits the aggregator is offered: the analysed forms of these.
RawPool ==
    { commitOf(1, "ann@x", <<2024, 1, 1, 10, 0, 0>>, <<changedFile("a.go", 3, 1)>>),
      commitOf(2, "bob@x", <<2024, 1, 1, 23, 0, 0>>,
               <<changedFile("c.py", 2, 0), changedFile("a.go", 1, 1)>>),
      commitOf(3, "ann@x", <<2024, 1, 2, 0, 1, 0>>, <<changedFile("b.go", 0, 2)>>),
      commitOf(4, "ann@x", <<2024, 1, 1, 23, 0, -300>>,
               <<changedFile("d.md", 1, 0), changedFile("e.h", 2, 2)>>),
      commitOf(5, "bob@x", <<2024, 1, 1, 10, 0, 0>>,
               <<changedFile("b.go", 1, 0), changedFile("README", 1, 1)>>),
      commitOf(6, "ann@x", <<2024, 1, 1, 23, 0, 0>>, <<>>),
      commitOf(7, "ann@x", <<>>,
               <<changedFile("g.go", 1, 0), changedFile("f.h", 0, 1),
                 changedFile("h.zz", 1, 1)>>),
      commitOf(8, "bob@x", <<2024, 1, 2, 1, 0, 120>>, <<changedFile("c.py", 0, 1)>>) }

EnrichedPool == {analysed(c) : c \in RawPool}

SeqsUpTo(S, n) == UNION {[1..k -> S] : k \in 0..n}

idleHarvest ==
    /\ gc = "returned" /\ x = 0 /\ lastOffset = 0 /\ res = <<>> /\ commits = <<>>
    /\ workersReturnedNoMore = 0 /\ jobsClosed = TRUE /\ issued = <<>>
    /\ commitWorkers = EmptyBag
    /\ cmd = [started |-> 0, waited |-> 0]

idleAnalysis ==
    /\ userCommits = <<>> /\ jobs = <<>> /\ results = 0 /\ al = "idle" /\ a = 0
    /\ libraryWorkers = EmptyBag /\ langWrites = <<>> /\ completions = <<>>

InitFold ==
    /\ gitLog = <<>> /\ NumCPU = 1 /\ UserEmails = <<>> /\ TimeLimit = 0
    /\ SkipLibraries = FALSE /\ ctxDone = FALSE
    /\ HashImportant \in BOOLEAN
    /\ pc = "export"
    /\ idleHarvest /\ idleAnalysis
    /\ preparedCommitsDataForExport = <<>> /\ folded = <<>> /\ output = <<>>
    /\ arrival \in SeqsUpTo(EnrichedPool, MaxArrive)
    /\ pending = DOMAIN arrival

\* case commitFromPipeline := <-r.commitPipeline, for the i-th of arrival
FoldCommit(i) ==
    /\ pc = "export"
    /\ i \in pending
    /\ pending' = pending \ {i}
    /\ preparedCommitsDataForExport' =
           foldCommit(preparedCommitsDataForExport, arrival[i], HashImportant)
    /\ folded' = Append(folded, arrival[i])
    /\ UNCHANGED <<inputVars, ctxDone, pc, harvestVars, analysisVars, output, arrival>>

\* case <-r.libraryExtractionCompleted, once every commit has arrived
FoldFinish ==
    /\ pc = "export"
    /\ pending = {}
    /\ \E marshalErr \in SUBSET bucketDates : exportFinish(marshalErr)
    /\ UNCHANGED <<inputVars, harvestVars, analysisVars, folded, foldVars>>

NextFold == (\E i \in DOMAIN arrival : FoldCommit(i)) \/ FoldFinish

SpecFold == InitFold /\ [][NextFold]_vars

\* ============================================ properties of the aggregator
\* the day key export gives a commit
dayKey(c) == timeString(getStartOfDayFromStringDate(c.Date))

noRepeats(list) == \A i, j \in 1..Len(list) : list[i] = list[j] => i = j

\* what a bucket holds, its lists read as sets
bucketView(b) ==
    [Commits |-> b.Commits, Insertions |-> b.Insertions, Deletions |-> b.Deletions,
     authorEmails |-> Range(b.AuthorEmails), languages |-> Range(b.Languages),
     libraries |-> [k \in DOMAIN b.Libraries |-> Range(b.Libraries[k])]]

RECURSIVE foldAll(_, _, _)
foldAll(prepared, cs, hashImportant) ==
    IF cs = <<>> THEN prepared
    ELSE foldAll(foldCommit(prepared, Head(cs), hashImportant), Tail(cs), hashImportant)

\* C1: with anonymization off, once commits that share one day key have
\* all been folded, in whatever order they arrived, the bucket holds what
\* folding them in the order of `arrival` gives: the same commit count, the
\* same sums, the same sets of emails, of languages and of libraries per
\* language.
C1_AggregationCommutative ==
    ( /\ pc = "export" /\ pending = {} /\ arrival # <<>> /\ ~HashImportant
      /\ \A i, j \in DOMAIN arrival : dayKey(arrival[i]) = dayKey(arrival[j]) )
    => bucketView(preparedCommitsDataForExport[1])
         = bucketView(foldAll(<<>>, arrival, FALSE)[1])

\* The calendar day, in UTC, of the instant a date string names.
daysIn(year, month) ==
    IF month = 2 THEN (IF year % 4 = 0 THEN 29 ELSE 28)
    ELSE IF month \in {4, 6, 9, 11} THEN 30 ELSE 31

utcDay(dateString) ==
    LET t == timeParse(dateString)
        minutes == t.Hour * 60 + t.Minute - t.Offset
    IN  IF minutes < 0
        THEN (IF t.Day > 1 THEN <<t.Year, t.Month, t.Day - 1>>
              ELSE IF t.Month > 1
                   THEN <<t.Year, t.Month - 1, daysIn(t.Year, t.Month - 1)>>
                   ELSE <<t.Year - 1, 12, 31>>)
        ELSE IF minutes >= 1440
        THEN (IF t.Day < daysIn(t.Year, t.Month) THEN <<t.Year, t.Month, t.Day + 1>>
              ELSE IF t.Month < 12 THEN <<t.Year, t.Month + 1, 1>>
                   ELSE <<t.Year + 1, 1, 1>>)
        ELSE <<t.Year, t.Month, t.Day>>

\* C7: the bucket a commit is folded into is the one of the UTC calendar
\* day of its instant, so two commits share a bucket exactly when their
\* instants lie on the same UTC day.
C7_DayKeyIsUtcDay ==
    \A i, j \in 1..Len(folded) :
        (~timeParse(folded[i].Date).err /\ ~timeParse(folded[j].Date).err)
        => /\ dayKey(folded[i]) = utcDay(folded[i].Date) \o <<0, 0, 0>>
           /\ (dayKey(folded[i]) = dayKey(folded[j]))
                <=> (utcDay(folded[i].Date) = utcDay(folded[j].Date))

\* C9: after every fold step, and in what is written, no bucket's library
\* list of any language holds an identifier twice.
C9_NoDuplicateLibraries ==
    /\ \A i \in 1..Len(preparedCommitsDataForExport) :
          \A k \in DOMAIN preparedCommitsDataForExport[i].Libraries :
              noRepeats(preparedCommitsDataForExport[i].Libraries[k])
    /\ \A i \in 1..Len(output) :
          \A k \in DOMAIN output[i].commitData.Libraries :
              noRepeats(output[i].commitData.Libraries[k])

\* a commit whose own list repeats an identifier was merged into a bucket
\* that an earlier commit had given an identifier of that list
C9_Witness ==
    /\ Len(folded) >= 2
    /\ LET last == folded[Len(folded)]
       IN  \E k \in DOMAIN last.Libraries :
             /\ ~noRepeats(last.Libraries[k])
             /\ \E j \in 1..(Len(folded) - 1) :
                   /\ dayKey(folded[j]) = dayKey(last)
                   /\ k \in DOMAIN folded[j].Libraries
                   /\ Range(folded[j].Libraries[k]) \cap Range(last.Libraries[k]) # {}

\* C10: during the aggregation and in what is written no two buckets have
\* the same Date, and there are as many buckets as the folded commits have
\* day keys: a commit with the key of an existing bucket adds none.
C10_OneBucketPerDay ==
    /\ \A i, j \in 1..Len(preparedCommitsDataForExport) :
          preparedCommitsDataForExport[i].Date = preparedCommitsDataForExport[j].Date
          => i = j
    /\ \A i, j \in 1..Len(output) :
          output[i].commitData.Date = output[j].commitData.Date => i = j
    /\ Len(preparedCommitsDataForExport) = Cardinality({dayKey(c) : c \in Range(folded)})

\* the export is written after two commits of one day were folded
C10_Witness ==
    /\ pc = "returned"
    /\ Len(output) >= 1
    /\ \E i, j \in 1..Len(folded) : i # j /\ dayKey(folded[i]) = dayKey(folded[j])

\* the folded commits with the day key of bucket b
foldedOn(b) == {i \in 1..Len(folded) : dayKey(folded[i]) = b.Date}

\* C11: with anonymization off, after every fold no bucket's author email
\* list holds an email twice, and it holds the emails of the commits folded
\* into it: one entry for an author with several commits on the day.
C11_NoDuplicateEmails ==
    ~HashImportant =>
        \A i \in 1..Len(preparedCommitsDataForExport) :
            LET b == preparedCommitsDataForExport[i]
            IN  /\ noRepeats(b.AuthorEmails)
                /\ Range(b.AuthorEmails) = {folded[j].AuthorEmail : j \in foldedOn(b)}

\* two commits of one author were folded into one bucket, which lists the
\* author once
C11_Witness ==
    /\ ~HashImportant
    /\ \E i \in 1..Len(preparedCommitsDataForExport) :
          LET b == preparedCommitsDataForExport[i]
          IN  /\ b.AuthorEmails = <<"ann@x">>
              /\ b.Commits = 2
              /\ \E j, k \in foldedOn(b) :
                    j # k /\ folded[j].AuthorEmail = folded[k].AuthorEmail

\* C14: what is written lists the buckets in strictly ascending order of
\* their Date strings, in whatever order the commits arrived.
C14_OutputAscending ==
    pc = "returned" =>
        /\ \A i \in 1..(Len(output) - 1) :
              StringLess(output[i].commitData.Date, output[i + 1].commitData.Date)
        /\ \A i \in 1..(Len(preparedCommitsDataForExport) - 1) :
              StringLess(preparedCommitsDataForExport[i].Date,
                         preparedCommitsDataForExport[i + 1].Date)

\* two buckets are written, and the commit of the later day arrived first
C14_Witness ==
    /\ pc = "returned" /\ Len(output) >= 2
    /\ Len(folded) >= 2
    /\ StringLess(dayKey(folded[2]), dayKey(folded[1]))

\* the non-empty languages of the changed files of a commit
languagesOf(c) ==
    {c.ChangedFiles[n].Language : n \in 1..Len(c.ChangedFiles)} \ {""}

\* C15: after every fold a bucket's languages are the union of the
\* languages of the commits folded into it, merged ones included.
C15_LanguagesUnioned ==
    \A i \in 1..Len(preparedCommitsDataForExport) :
        LET b == preparedCommitsDataForExport[i]
        IN  Range(b.Languages) = UNION {languagesOf(folded[j]) : j \in foldedOn(b)}

\* C20: whichever buckets json.Marshal fails for, every other bucket is
\* written, in order, and every written element but the last written one
\* is followed by a comma, the last written one by none.
C20_WellFormedArray ==
    pc = "returned" =>
        /\ \A i \in 1..Len(output) :
              output[i].suffix = (IF i < Len(output) THEN "," ELSE "")
        /\ Len(output) <= Len(preparedCommitsDataForExport)
        /\ \A i \in 1..Len(output) :
              \E k \in 1..Len(preparedCommitsDataForExport) :
                  output[i].commitData = preparedCommitsDataForExport[k]

\* the values obfuscation.Obfuscate puts in place of emails
obfuscated == {md5Of(email) : email \in {"ann@x", "bob@x"}}

\* C22: with anonymization on, every author email of every bucket, kept or
\* written, is an obfuscated value, and a bucket lists each author of the
\* commits folded into it once.
C22_NoRawEmailExported ==
    HashImportant =>
        /\ \A i \in 1..Len(preparedCommitsDataForExport) :
              LET b == preparedCommitsDataForExport[i]
              IN  /\ Range(b.AuthorEmails) \subseteq obfuscated
                  /\ Len(b.AuthorEmails) =
                        Cardinality({folded[j].AuthorEmail : j \in foldedOn(b)})
        /\ \A i \in 1..Len(output) :
              Range(output[i].commitData.AuthorEmails) \subseteq obfuscated

\* ====================================================== stage 1: the harvest
step == 1000

\* ----------------------------------------------------- the output of git log
\* A line is the tuple of its fields: <<>> a blank line, a header
\* <<"|||BEGIN|||", %H, %an, %ae, %ad>> (the fields between |||SEP|||),
\* any other line its whitespace separated fields.  %ad has the layout
\* "Mon Jan 2 15:04:05 2006 -0700": <<month, day, hour, minute, year, zone>>.
\* A hash is the commit's place in the log, counted from the newest.
headerLine(hash, an, ae, ad) == <<"|||BEGIN|||", hash, an, ae, ad>>

\* gitLog is [total |-> the number of commits, special |-> the lines git
\* prints for some of them, by place]; for every other commit, by another
\* author and without changed files, it prints fillerLines.
fillerLines(hash) ==
    <<headerLine(hash, "eve", "eve@x", <<1, 3, 12, 0, 2024, 60>>), <<>>>>

\* time.Parse("Mon Jan 2 15:04:05 2006 -0700", s) then
\* t.Format("2006-01-02 15:04:05 -0700"); "" when s does not parse
convertDate(ad) ==
    IF Len(ad) = 6 THEN <<ad[5], ad[1], ad[2], ad[3], ad[4], ad[6]>> ELSE <<>>

\* strconv.Atoi
atoi(str) ==
    CASE str = "0" -> [err |-> FALSE, n |-> 0]
      [] str = "1" -> [err |-> FALSE, n |-> 1]
      [] str = "2" -> [err |-> FALSE, n |-> 2]
      [] str = "3" -> [err |-> FALSE, n |-> 3]
      [] OTHER -> [err |-> TRUE, n |-> 0]

\* strings.Contains(s, substr) for s = "=>"
stringsContainsArrow_Never(substr) == FALSE

stringsContainsArrow(substr) == substr \in {"", "=", ">", "=>"}

\* The scanner loop of commitWorker on one line m.  The state is
\* currectCommit (<<>> for nil, else <<the commit>>), commits (a list of
\* [commit, count]: count commits with consecutive hashes from commit.Hash
\* on, alike otherwise) and err ("" while the loop has not returned).
parseLine(state, m) ==
    IF state.err # "" \/ m = <<>> THEN state
    ELSE IF m[1] = "|||BEGIN|||"
    THEN [state EXCEPT
            !.commits = @ \o [i \in 1..Len(state.currectCommit) |->
                                 [commit |-> state.currectCommit[i], count |-> 1]],
            !.currectCommit = <<commitOf(m[2], m[4], convertDate(m[5]), <<>>)>>]
    ELSE LET insertions == atoi(IF m[1] = "-" THEN "0" ELSE m[1])
             deletions == atoi(IF m[2] = "-" THEN "0" ELSE m[2])
             fileName == m[3]
         IN  IF insertions.err \/ deletions.err
             THEN [state EXCEPT !.err = "strconv.Atoi: invalid syntax"]
             ELSE IF stringsContainsArrow(fileName) THEN state
             ELSE IF state.currectCommit = <<>>
             THEN [state EXCEPT !.err = "did not expect current commit to be null"]
             ELSE [state EXCEPT !.currectCommit[1].ChangedFiles =
                       Append(@, changedFile(m[3], insertions.n, deletions.n))]

\* the scanner loop over lines: the state after the first line is the state
\* the rest starts from
RECURSIVE parseLines(_, _)
parseLines(state, lines) ==
    IF lines = <<>> THEN state
    ELSE CHOOSE last \in {parseLines(after, Tail(lines)) :
                              after \in {parseLine(state, Head(lines))}} : TRUE

\* parseLines over the fillerLines of the n >= 1 commits from hash on
parseFillers(state, hash, n) ==
    LET first == parseLines(state, fillerLines(hash))
    IN  IF n = 1 \/ state.err # "" THEN first
        ELSE [first EXCEPT
                !.commits = @ \o <<[commit |-> first.currectCommit[1], count |-> n - 1]>>,
                !.currectCommit = parseLines(state, fillerLines(hash + n - 1)).currectCommit]

minOf(S) == CHOOSE m \in S : \A o \in S : m <= o

\* the scanner loop over what git log prints for the commits lo .. hi-1
RECURSIVE parseFrom(_, _, _, _)
parseFrom(log, lo, hi, state) ==
    IF lo >= hi THEN state
    ELSE LET next == IF lo \in DOMAIN log.special THEN lo + 1
                     ELSE minOf({p \in DOMAIN log.special : p > lo} \cup {hi})
         IN  CHOOSE last \in
                 {parseFrom(log, next, hi, after) :
                     after \in {IF lo \in DOMAIN log.special
                                THEN parseLines(state, log.special[lo])
                                ELSE parseFillers(state, lo, next - lo)}} : TRUE

\* One turn of the loop `for v := range jobs` of commitWorker up to its
\* send or return: git log --skip=Offset --max-count=Limit, the scanner
\* loop, the last commit appended.
runJob(log, v) ==
    LET lo == IF v.Offset < log.total THEN v.Offset ELSE log.total
        hi == IF v.Offset + v.Limit < log.total THEN v.Offset + v.Limit ELSE log.total
        scanned == parseFrom(log, lo, hi, [currectCommit |-> <<>>, commits |-> <<>>,
                                           err |-> ""])
        batch == scanned.commits \o
                 [i \in 1..Len(scanned.currectCommit) |->
                     [commit |-> scanned.currectCommit[i], count |-> 1]]
    IN  IF scanned.err # "" THEN [pc |-> "failed", commits |-> <<>>]
        ELSE IF batch = <<>> THEN [pc |-> "sendNoMore", commits |-> <<>>]
        ELSE [pc |-> "sendResults", commits |-> batch]

\* a commitWorker waiting in `range jobs`
atRange == [pc |-> "range", commits |-> <<>>]

\* the bag b with one copy of the local state old replaced by new
moved(b, old, new) == (b (-) SetToBag({old})) (+) SetToBag({new})

bagOf(state, n) == [s \in {state} |-> n]

\* ------------------------------------------------------------- getCommits
\* lastOffset += step
advance_Twice(offset) == offset + 2 * step

advance_Same(offset) == offset

advance(offset) == offset + step

\* the launch loop: jobs <- &req{Limit: step, Offset: x * step}, received
\* by a worker
LaunchJob ==
    /\ pc = "getCommits" /\ gc = "launch"
    /\ BagIn(atRange, commitWorkers)
    /\ commitWorkers' = moved(commitWorkers, atRange,
                              runJob(gitLog, [Limit |-> step, Offset |-> x * step]))
    /\ issued' = Append(issued, x * step)
    /\ cmd' = [cmd EXCEPT !.started = @ + 1]
    /\ lastOffset' = step * x
    /\ x' = x + 1
    /\ gc' = IF x + 1 < NumCPU THEN "launch" ELSE "select"
    /\ UNCHANGED <<inputVars, ctxDone, pc, res, commits, workersReturnedNoMore,
                   jobsClosed, analysisVars, exportVars, foldVars>>

\* case res := <-results, up to the send of the next job
RecvResults ==
    /\ pc = "getCommits" /\ gc = "select"
    /\ \E w \in BagToSet(commitWorkers) :
          /\ w.pc = "sendResults"
          /\ res' = w.commits
          /\ commitWorkers' = moved(commitWorkers, w, atRange)
    /\ lastOffset' = advance(lastOffset)
    /\ gc' = "sendJob"
    /\ UNCHANGED <<inputVars, ctxDone, pc, x, commits, workersReturnedNoMore,
                   jobsClosed, issued, cmd, analysisVars, exportVars, foldVars>>

\* jobs <- &req{Limit: step, Offset: lastOffset} received by a worker, and
\* the rest of the case
SendJob ==
    /\ pc = "getCommits" /\ gc = "sendJob"
    /\ BagIn(atRange, commitWorkers)
    /\ commitWorkers' = moved(commitWorkers, atRange,
                              runJob(gitLog, [Limit |-> step, Offset |-> lastOffset]))
    /\ issued' = Append(issued, lastOffset)
    /\ cmd' = [cmd EXCEPT !.started = @ + 1]
    /\ commits' = commits \o res
    /\ res' = <<>>
    /\ gc' = "select"
    /\ UNCHANGED <<inputVars, ctxDone, pc, x, lastOffset, workersReturnedNoMore,
                   jobsClosed, analysisVars, exportVars, foldVars>>

\* case <-noMoreChan; the worker that sent returns nil
RecvNoMore_First ==
    /\ pc = "getCommits" /\ gc = "select"
    /\ BagIn([pc |-> "sendNoMore", commits |-> <<>>], commitWorkers)
    /\ commitWorkers' = moved(commitWorkers, [pc |-> "sendNoMore", commits |-> <<>>],
                              [pc |-> "done", commits |-> <<>>])
    /\ workersReturnedNoMore' = workersReturnedNoMore + 1
    /\ jobsClosed' = TRUE /\ gc' = "returned"
    /\ UNCHANGED <<inputVars, ctxDone, pc, x, lastOffset, res, commits, issued, cmd,
                   analysisVars, exportVars, foldVars>>

RecvNoMore ==
    /\ pc = "getCommits" /\ gc = "select"
    /\ BagIn([pc |-> "sendNoMore", commits |-> <<>>], commitWorkers)
    /\ commitWorkers' = moved(commitWorkers, [pc |-> "sendNoMore", commits |-> <<>>],
                              [pc |-> "done", commits |-> <<>>])
    /\ workersReturnedNoMore' = workersReturnedNoMore + 1
    /\ IF workersReturnedNoMore + 1 = NumCPU
       THEN jobsClosed' = TRUE /\ gc' = "returned"
       ELSE UNCHANGED <<jobsClosed, gc>>
    /\ UNCHANGED <<inputVars, ctxDone, pc, x, lastOffset, res, commits, issued, cmd,
                   analysisVars, exportVars, foldVars>>

\* case <-ctx.Done()
GetCommitsTimeout_Drops ==
    /\ pc = "getCommits" /\ gc = "select"
    /\ ctxDone
    /\ jobsClosed' = TRUE
    /\ gc' = "returned"
    /\ commits' = <<>>
    /\ UNCHANGED <<inputVars, ctxDone, pc, x, lastOffset, res,
                   workersReturnedNoMore, issued, commitWorkers, cmd, analysisVars,
                   exportVars, foldVars>>

GetCommitsTimeout_Stays ==
    /\ pc = "getCommits" /\ gc = "select"
    /\ ctxDone
    /\ UNCHANGED vars

GetCommitsTimeout ==
    /\ pc = "getCommits" /\ gc = "select"
    /\ ctxDone
    /\ jobsClosed' = TRUE
    /\ gc' = "returned"
    /\ UNCHANGED <<inputVars, ctxDone, pc, x, lastOffset, res, commits,
                   workersReturnedNoMore, issued, commitWorkers, cmd, analysisVars,
                   exportVars, foldVars>>

\* `range jobs` of a commitWorker ends: jobs is closed.  No run enables
\* this step (RangeJobsNeverEnds below): getCommits closes jobs only in its
\* select, where every worker that has not returned holds a job or is
\* blocked sending.  It is therefore no disjunct of Next.
CommitWorkerExit ==
    /\ jobsClosed
    /\ BagIn(atRange, commitWorkers)
    /\ commitWorkers' = moved(commitWorkers, atRange, [pc |-> "done", commits |-> <<>>])
    /\ UNCHANGED <<inputVars, ctxDone, pc, gc, x, lastOffset, res, commits,
                   workersReturnedNoMore, jobsClosed, issued, cmd, analysisVars,
                   exportVars, foldVars>>

\* the timer of context.WithTimeout fires
Expire ==
    /\ TimeLimit # 0 /\ ~ctxDone /\ pc # "returned"
    /\ ctxDone' = TRUE
    /\ UNCHANGED <<inputVars, pc, harvestVars, analysisVars, exportVars, foldVars>>

\* ---------------------------------------------------------- analyseCommits
\* the loop `for _, v := range commits` keeping the commits of the selected
\* emails (r.UserEmails is not empty: ui.SelectEmail is not asked)
RECURSIVE commitsForUser(_, _)
commitsForUser(batch, selectedEmails) ==
    IF batch = <<>> THEN <<>>
    ELSE (IF Head(batch).commit.AuthorEmail \in selectedEmails
          THEN [k \in 1..Head(batch).count |->
                   [Head(batch).commit EXCEPT !.Hash = @ + k - 1]]
          ELSE <<>>) \o commitsForUser(Tail(batch), selectedEmails)

\* analyseCommits after getCommits has returned (its error is always nil),
\* then Extract up to the loop of export
AnalyseCommits ==
    /\ pc = "getCommits" /\ gc = "returned"
    /\ userCommits' = IF commits = <<>> THEN <<>>
                      ELSE commitsForUser(commits, Range(UserEmails))
    /\ langWrites' = [c \in 1..Len(userCommits') |->
                         [n \in 1..Len(userCommits'[c].ChangedFiles) |-> 0]]
    /\ completions' = [c \in 1..Len(userCommits') |-> 0]
    /\ pc' = "export"
    /\ UNCHANGED <<inputVars, ctxDone, harvestVars, jobs, results, al, a,
                   libraryWorkers, exportVars, foldVars>>

\* ================================================== stage 2: the analysis
\* a libraryWorker waiting in `range commits`
idleWorker(hasTimeout) ==
    [pc |-> "range", c |-> 0, n |-> 0, libraries |-> emptyLibraries,
     hasTimeout |-> hasTimeout]

\* analyseLibraries up to its collecting loop: the workers started, every
\* user commit sent on the buffered jobs channel (by its index in
\* r.userCommits, for the pointer), the channel closed
StartAnalysis ==
    /\ pc = "export" /\ al = "idle"
    /\ libraryWorkers' = bagOf(idleWorker(FALSE), NumCPU)
    /\ jobs' = [i \in 1..Len(userCommits) |-> i]
    /\ a' = 1
    /\ al' = IF Len(userCommits) = 0 THEN "signal" ELSE "collect"
    /\ UNCHANGED <<inputVars, ctxDone, pc, harvestVars, userCommits, results,
                   langWrites, completions, exportVars, foldVars>>

\* where a worker is once it is done with file n of commit c
afterFile(w) ==
    [w EXCEPT !.n = @ + 1,
              !.pc = IF w.n + 1 > Len(userCommits[w.c].ChangedFiles)
                     THEN "send" ELSE "file"]

\* `range commits` of a libraryWorker yields the next commit and leaves
\* the others in the channel
TakeCommitLeaving(others) ==
    /\ jobs # <<>>
    /\ \E w \in BagToSet(libraryWorkers) :
          /\ w.pc = "range"
          /\ libraryWorkers' = moved(libraryWorkers, w,
                  afterFile([w EXCEPT !.c = Head(jobs), !.n = 0,
                                      !.libraries = emptyLibraries]))
    /\ jobs' = others
    /\ UNCHANGED <<inputVars, ctxDone, pc, harvestVars, userCommits, results, al, a,
                   langWrites, completions, exportVars, foldVars>>

TakeCommit_Peek == TakeCommitLeaving(jobs)

TakeCommit == TakeCommitLeaving(Tail(jobs))

\* `range commits` ends: the channel is closed and empty
LibraryWorkerExit ==
    /\ al # "idle" /\ jobs = <<>>
    /\ \E w \in BagToSet(libraryWorkers) :
          /\ w.pc = "range"
          /\ libraryWorkers' = moved(libraryWorkers, w, [w EXCEPT !.pc = "done"])
    /\ UNCHANGED <<inputVars, ctxDone, pc, harvestVars, analysisVarsButWorkers,
                   exportVars, foldVars>>

\* one turn of the loop over the changed files: the select on ctx.Done(),
\* and in its default case the analysis of file n
AnalyseFile ==
    \E w \in BagToSet(libraryWorkers) :
       /\ w.pc = "file"
       /\ IF ctxDone
          THEN /\ libraryWorkers' = moved(libraryWorkers, w,
                       [w EXCEPT !.pc = "tsend", !.hasTimeout = TRUE])
               /\ UNCHANGED <<userCommits, langWrites>>
          ELSE LET r == analyseFile(userCommits[w.c].Hash,
                                    userCommits[w.c].ChangedFiles[w.n],
                                    w.libraries, SkipLibraries)
               IN  /\ libraryWorkers' = moved(libraryWorkers, w,
                           afterFile([w EXCEPT !.libraries = r.libraries]))
                   /\ IF r.write
                      THEN /\ userCommits' = [userCommits EXCEPT
                                  ![w.c].ChangedFiles[w.n].Language = r.lang]
                           /\ langWrites' = [langWrites EXCEPT ![w.c][w.n] = @ + 1]
                      ELSE UNCHANGED <<userCommits, langWrites>>
       /\ UNCHANGED <<inputVars, ctxDone, pc, harvestVars, jobs, results, al, a,
                      completions, exportVars, foldVars>>

\* the commit c a worker sends on r.commitPipeline
pipelined(w) ==
    [Hash |-> userCommits[w.c].Hash, AuthorEmail |-> userCommits[w.c].AuthorEmail,
     Date |-> userCommits[w.c].Date, ChangedFiles |-> userCommits[w.c].ChangedFiles,
     Libraries |-> w.libraries]

\* r.commitPipeline <- c of a worker (in the ctx.Done() case or after the
\* loop) received by export: case commitFromPipeline := <-r.commitPipeline
ReceiveCommit ==
    /\ pc = "export"
    /\ \E w \in BagToSet(libraryWorkers) :
          /\ w.pc \in {"tsend", "send"}
          /\ libraryWorkers' = moved(libraryWorkers, w,
                  [w EXCEPT !.pc = IF w.pc = "tsend" THEN "tres" ELSE "res"])
          /\ preparedCommitsDataForExport' =
                 foldCommit(preparedCommitsDataForExport, pipelined(w), HashImportant)
          /\ folded' = Append(folded, pipelined(w))
    /\ UNCHANGED <<inputVars, ctxDone, pc, harvestVars, analysisVarsButWorkers,
                   output, foldVars>>

\* results <- true of a worker: the buffer holds len(r.userCommits) values.
\* In the ctx.Done() case `continue` follows, which goes on with the loop
\* over the changed files; after the loop the worker takes the next commit.
SignalCompletion ==
    /\ results < Len(userCommits)
    /\ \E w \in BagToSet(libraryWorkers) :
          /\ w.pc \in {"tres", "res"}
          /\ libraryWorkers' = moved(libraryWorkers, w,
                  IF w.pc = "tres" THEN afterFile(w) ELSE idleWorker(w.hasTimeout))
          /\ completions' = [completions EXCEPT ![w.c] = @ + 1]
    /\ results' = results + 1
    /\ UNCHANGED <<inputVars, ctxDone, pc, harvestVars, userCommits, jobs, al, a,
                   langWrites, exportVars, foldVars>>

\* <-results in the collecting loop of analyseLibraries
CollectResult ==
    /\ al = "collect"
    /\ results > 0
    /\ results' = results - 1
    /\ a' = a + 1
    /\ al' = IF a + 1 <= Len(userCommits) THEN "collect" ELSE "signal"
    /\ UNCHANGED <<inputVars, ctxDone, pc, harvestVars, userCommits, jobs,
                   libraryWorkers, langWrites, completions, exportVars, foldVars>>

\* the deferred r.libraryExtractionCompleted <- true received by export:
\* case <-r.libraryExtractionCompleted, and the rest of export and Extract
ReceiveCompleted ==
    /\ pc = "export" /\ al = "signal"
    /\ al' = "done"
    /\ \E marshalErr \in SUBSET bucketDates : exportFinish(marshalErr)
    /\ UNCHANGED <<inputVars, harvestVars, userCommits, jobs, results, a,
                   libraryWorkers, langWrites, completions, folded, foldVars>>

\* ================================================================ the run
\* the lines of a commit with changed files
linesOf(hash, an, ae, ad, statLines) ==
    <<headerLine(hash, an, ae, ad), <<>>>> \o statLines \o << <<>> >>

\* what git log prints for some commits, by place, in each kind of history
specialLines(kind) ==
    CASE kind = "plain" -> [p \in {} |-> <<>>]
      [] kind = "mine" ->
           [p \in {0, 1, step, 2 * step} |->
              CASE p = 0 -> linesOf(p, "ann", "ann@x", <<1, 1, 10, 0, 2024, 0>>,
                                    << <<"3", "1", "a.go">>, <<"2", "0", "c.py">> >>)
                [] p = 1 -> linesOf(p, "bob", "bob@x", <<1, 1, 23, 0, 2024, 0>>,
                                    << <<"1", "1", "b.go">>,
                                       <<"0", "0", "old", "=>", "new">>,
                                       <<"1", "0", "=">> >>)
                [] p = step ->
                     linesOf(p, "ann", "ann@x", <<1, 2, 0, 1, 2024, 0>>,
                             << <<"-", "-", "e.h">>, <<"1", "0", "=>">>,
                                <<"1", "1", "README">> >>)
                [] OTHER -> linesOf(p, "ann", "ann@x", <<1, 1, 23, 0, 2024, -300>>,
                                    << <<"0", "2", "b.go">> >>)]
      [] kind = "badStat" ->
           [p \in {0, step} |->
              CASE p = 0 -> linesOf(p, "ann", "ann@x", <<1, 2, 0, 1, 2024, 0>>,
                                    << <<"0", "2", "b.go">> >>)
                [] OTHER -> linesOf(p, "ann", "ann@x", <<1, 1, 10, 0, 2024, 0>>,
                                    << <<"x", "1", "a.go">> >>)]
      [] OTHER ->   \* "stray": a numstat line before the first header
           [p \in {0} |->
              << <<"1", "1", "a.go">> >> \o
              linesOf(p, "ann", "ann@x", <<1, 1, 10, 0, 2024, 0>>, <<>>)]

\* the histories of fewer than pages full pages, plus one commit
Histories(pages) ==
    { [total |-> t,
       special |-> [p \in {q \in DOMAIN specialLines(kind) : q < t} |->
                       specialLines(kind)[p]]] :
        t \in {p * step + r : p \in 0..(pages - 1), r \in {0, 1}},
        kind \in {"plain", "mine", "badStat", "stray"} }

InitOver(histories) ==
    /\ gitLog \in histories
    /\ NumCPU \in 1..MaxCPU
    /\ UserEmails = <<"ann@x">>
    /\ TimeLimit \in {0, 1}
    /\ HashImportant = FALSE
    /\ SkipLibraries \in BOOLEAN
    /\ ctxDone = FALSE
    /\ pc = "getCommits"
    /\ gc = "launch" /\ x = 0 /\ lastOffset = 0 /\ res = <<>> /\ commits = <<>>
    /\ workersReturnedNoMore = 0 /\ jobsClosed = FALSE /\ issued = <<>>
    /\ commitWorkers = bagOf(atRange, NumCPU)
    /\ cmd = [started |-> 0, waited |-> 0]
    /\ idleAnalysis
    /\ preparedCommitsDataForExport = <<>> /\ folded = <<>> /\ output = <<>>
    /\ arrival = <<>> /\ pending = {}

Next ==
    \/ LaunchJob \/ RecvResults \/ SendJob \/ RecvNoMore \/ GetCommitsTimeout
    \/ Expire
    \/ AnalyseCommits
    \/ StartAnalysis \/ TakeCommit \/ LibraryWorkerExit \/ AnalyseFile
    \/ ReceiveCommit \/ SignalCompletion \/ CollectResult \/ ReceiveCompleted

Init == InitOver(Histories(MaxPages))

Spec == Init /\ [][Next]_vars

\* The steps of the goroutines: every step but the expiry of the deadline.
Run ==
    \/ LaunchJob \/ RecvResults \/ SendJob \/ RecvNoMore \/ GetCommitsTimeout
    \/ AnalyseCommits
    \/ StartAnalysis \/ TakeCommit \/ LibraryWorkerExit \/ AnalyseFile
    \/ ReceiveCommit \/ SignalCompletion \/ CollectResult \/ ReceiveCompleted

\* The scheduler runs a goroutine that can take a step as long as there is
\* one, and a select with a ready case takes one; nothing makes the
\* deadline expire.  The histories are those of one page less.
InitFair == InitOver(Histories(MaxPages - 1))

FairSpec == InitFair /\ [][Next]_vars /\ WF_vars(Run)

\* ============================================== properties of the pipeline
\* no commitWorker ever finds jobs closed while it waits for a job
RangeJobsNeverEnds == ~(jobsClosed /\ BagIn(atRange, commitWorkers))

workerFailed == \E w \in BagToSet(commitWorkers) : w.pc = "failed"

\* how often user commit c was sent on r.commitPipeline
sends(c) == Cardinality({i \in 1..Len(folded) : folded[i].Hash = userCommits[c].Hash})

\* a worker has taken user commit c and is through with it
finished(c) ==
    /\ al # "idle" /\ c \notin Range(jobs)
    /\ \A w \in BagToSet(libraryWorkers) : w.pc \in {"range", "done"} \/ w.c # c

\* C2: a worker sends each commit it takes once on the commit pipeline and
\* signals its completion once: never more, and exactly once when the
\* worker is through with the commit, deadline or not.
C2_OneSendOneSignal ==
    \A c \in 1..Len(userCommits) :
        /\ sends(c) <= 1 /\ completions[c] <= 1
        /\ finished(c) => (sends(c) = 1 /\ completions[c] = 1)

\* C3: when the loop of export has ended, every commit of r.userCommits
\* has been received from the commit pipeline and folded.
C3_NoCommitDropped ==
    pc = "returned" => \A c \in 1..Len(userCommits) : sends(c) >= 1

\* the commits a list of [commit, count] stands for, as sets of hashes
hashesOf(item) == item.commit.Hash .. (item.commit.Hash + item.count - 1)

\* C4: when getCommits returns because every worker signalled exhaustion
\* (no deadline cut it short, no worker failed), the commits it returns are
\* the commits 0 .. total-1 of the history, each once, for every NumCPU.
C4_EveryCommitOnce ==
    (gc = "returned" /\ workersReturnedNoMore = NumCPU)
    => /\ SumSeq([i \in 1..Len(commits) |-> commits[i].count]) = gitLog.total
       /\ \A i \in 1..Len(commits) :
             /\ commits[i].count >= 1
             /\ hashesOf(commits[i]) \subseteq 0..(gitLog.total - 1)
       /\ \A i, j \in 1..Len(commits) :
             i # j => hashesOf(commits[i]) \cap hashesOf(commits[j]) = {}

\* three pages were fetched by two workers
C4_Witness ==
    /\ gc = "returned" /\ workersReturnedNoMore = NumCPU /\ NumCPU = 2
    /\ gitLog.total = 2 * step + 1
    /\ Len(issued) = 5

\* what git log prints for the whole history parses
wholeLog == runJob(gitLog, [Limit |-> gitLog.total, Offset |-> 0])

\* the day keys of all the commits of the selected emails
allDayKeys ==
    {dayKey(c) : c \in Range(commitsForUser(wholeLog.commits, Range(UserEmails)))}

exportedDayKeys == {output[i].commitData.Date : i \in 1..Len(output)}

\* C5: over a history that parses, a run without deadline exports the day
\* keys of all the user's commits and a run whose deadline expires exports
\* some of them (json.Marshal failing for no bucket); and once the deadline
\* has expired Extract returns.
C5_DeadlineGivesSubset ==
    /\ [](( pc = "returned" /\ wholeLog.pc # "failed" )
          => /\ bucketDates \subseteq allDayKeys
             /\ TimeLimit = 0 => bucketDates = allDayKeys
             /\ exportedDayKeys \subseteq bucketDates)
    /\ [](ctxDone => <>(pc = "returned"))

\* the deadline cut the run short: a day of the user's commits is missing
C5_Witness ==
    /\ pc = "returned" /\ TimeLimit # 0 /\ wholeLog.pc # "failed"
    /\ output # <<>>
    /\ exportedDayKeys # allDayKeys
    /\ \E w \in BagToSet(libraryWorkers) : w.hasTimeout

\* the lines git log prints for the commit at place hash
linesAt(hash) ==
    IF hash \in DOMAIN gitLog.special THEN gitLog.special[hash] ELSE fillerLines(hash)

\* its numstat lines: neither blank nor a header
statLines(hash) ==
    SelectSeq(linesAt(hash), LAMBDA m : m # <<>> /\ m[1] # "|||BEGIN|||")

\* the ChangedFile a numstat line describes
fileOfLine(m) ==
    changedFile(m[3], atoi(IF m[1] = "-" THEN "0" ELSE m[1]).n,
                atoi(IF m[2] = "-" THEN "0" ELSE m[2]).n)

filesOfLines(lines) == [i \in 1..Len(lines) |-> fileOfLine(lines[i])]

endedIterations ==
    cmd.started
    - Cardinality({o \in Range(issued) :
                      \E w \in BagToSet(commitWorkers) :
                          /\ w.pc \in {"sendResults", "sendNoMore"}
                          /\ w = runJob(gitLog, [Limit |-> step, Offset |-> o])})

\* C19: the git subprocess of every iteration that has ended was waited
\* for and its pipe closed.
C19_SubprocessReleased == cmd.waited >= endedIterations

\* the pages the commits of a list lie on
pagesOf(list) == {list[i].commit.Hash \div step : i \in 1..Len(list)}

\* C18: the jobs are issued at the offsets 0, step, 2*step, ... in this
\* order (so strictly increasing, none twice): one per worker in the launch
\* loop, then one per batch received; lastOffset is the offset of the last
\* job issued, or of the next one between a receive and its send.
C18_OffsetsAdvance ==
    /\ \A i \in 1..Len(issued) : issued[i] = (i - 1) * step
    /\ Len(issued) = IF gc = "launch" THEN x
                     ELSE NumCPU + Cardinality(pagesOf(commits))
    /\ gc = "sendJob" => lastOffset = Len(issued) * step
    /\ (gc \in {"select", "returned"} /\ issued # <<>>)
          => lastOffset = (Len(issued) - 1) * step

\* two workers, two batches received and answered by a job each
C18_Witness ==
    /\ gc = "select" /\ NumCPU = 2
    /\ Len(issued) = 4 /\ Cardinality(pagesOf(commits)) = 2

\* some page of the history makes a worker return an error
pageFails ==
    \E p \in 0..MaxPages :
        runJob(gitLog, [Limit |-> step, Offset |-> p * step]).pc = "failed"

\* the workers that have returned
returnedWorkers == CopiesIn([pc |-> "done", commits |-> <<>>], commitWorkers)

\* C17: without a deadline, the job queue is closed exactly when NumCPU
\* exhaustion signals were received, one from each worker, which has
\* returned; and over a history that no worker fails on getCommits returns,
\* every worker having returned.
C17_HarvestTerminates ==
    /\ [](TimeLimit = 0 =>
            /\ jobsClosed <=> workersReturnedNoMore = NumCPU
            /\ workersReturnedNoMore = returnedWorkers
            /\ gc = "returned" <=> returnedWorkers = NumCPU)
    /\ (TimeLimit = 0 /\ ~pageFails) => <>(gc = "returned")

\* two workers fetched two pages, signalled exhaustion and returned, and
\* the run went on to its end
C17_Witness ==
    /\ TimeLimit = 0 /\ NumCPU = 2 /\ gitLog.total = step + 1
    /\ gc = "returned" /\ returnedWorkers = 2 /\ jobsClosed
    /\ pc = "returned"

\* the commits of the batches of the jobs issued
issuedBatches ==
    UNION {Range(runJob(gitLog, [Limit |-> step, Offset |-> o]).commits) :
              o \in Range(issued)}

\* the commits of the batches workers are blocked sending
heldBatches ==
    UNION {Range(w.commits) : w \in BagToSet(commitWorkers)}

\* C12: getCommits holds every batch it has received (what it returns, on
\* the deadline too, is what was gathered), analyseCommits selects the
\* user's commits from it, and a run whose deadline expires in the harvest
\* goes on to analysis and export.
C12_DeadlineIsNoFailure ==
    /\ [](Range(commits) \cup Range(res) \cup heldBatches = issuedBatches)
    /\ [](pc # "getCommits" =>
             [c \in 1..Len(userCommits) |-> userCommits[c].Hash] =
             [c \in 1..Len(commitsForUser(commits, Range(UserEmails))) |->
                 commitsForUser(commits, Range(UserEmails))[c].Hash])
    /\ []((ctxDone /\ pc = "getCommits") => <>(pc = "export"))

\* the deadline ended a harvest that had gathered some of the commits, and
\* they were exported
C12_Witness ==
    /\ pc = "returned" /\ gc = "returned"
    /\ workersReturnedNoMore < NumCPU /\ ~workerFailed
    /\ commits # <<>>
    /\ SumSeq([i \in 1..Len(commits) |-> commits[i].count]) < gitLog.total
    /\ output # <<>>

\* the insertions and the deletions of a commit
insertionsOf(c) == SumSeq([n \in 1..Len(c.ChangedFiles) |-> c.ChangedFiles[n].Insertions])
deletionsOf(c) == SumSeq([n \in 1..Len(c.ChangedFiles) |-> c.ChangedFiles[n].Deletions])

\* whether bucket b counts and sums the commits of list all with its key
countsAndSums(b, all) ==
    LET sel == SelectSeq(all, LAMBDA c : dayKey(c) = b.Date)
    IN  /\ b.Commits = Len(sel)
        /\ b.Insertions = SumSeq([k \in 1..Len(sel) |-> insertionsOf(sel[k])])
        /\ b.Deletions = SumSeq([k \in 1..Len(sel) |-> deletionsOf(sel[k])])

\* C16: a run without deadline that returns has one bucket for every day
\* key of the user's commits of the history; each bucket, and each written
\* one, counts those of its key and sums their insertions and deletions.
C16_CountsAndSums ==
    (pc = "returned" /\ TimeLimit = 0) =>
        LET all == commitsForUser(wholeLog.commits, Range(UserEmails))
        IN  /\ bucketDates = {dayKey(c) : c \in Range(all)}
            /\ \A i \in 1..Len(preparedCommitsDataForExport) :
                  countsAndSums(preparedCommitsDataForExport[i], all)
            /\ \A i \in 1..Len(output) : countsAndSums(output[i].commitData, all)

\* a bucket of two commits and another bucket were written
C16_Witness ==
    /\ pc = "returned" /\ TimeLimit = 0 /\ Len(output) = 2
    /\ \E i \in 1..Len(output) :
          output[i].commitData.Commits = 2 /\ output[i].commitData.Insertions > 0

\* C21: once getCommits has returned every commitWorker returns, and once
\* Extract has returned every libraryWorker returns: none stays blocked in
\* a send.
C21_NoWorkerLeftBlocked ==
    /\ [](gc = "returned" =>
            <>(\A w \in BagToSet(commitWorkers) : w.pc \in {"done", "failed"}))
    /\ [](pc = "returned" =>
            <>(\A w \in BagToSet(libraryWorkers) : w.pc = "done"))

\* C6: once a harvest worker has returned an error the run does not go on
\* to analysis and export.
C6_ParseErrorAborts == workerFailed => pc = "getCommits"

\* C8: the Language of a changed file is written at most once, and is set
\* exactly when it was written.
C8_LanguageWrittenOnce ==
    \A c \in 1..Len(userCommits) :
        \A n \in 1..Len(userCommits[c].ChangedFiles) :
            /\ langWrites[c][n] <= 1
            /\ (userCommits[c].ChangedFiles[n].Language # "") <=> (langWrites[c][n] = 1)

\* two workers are through with two commits, a language written in each,
\* and the deadline has expired
C8_Witness ==
    /\ ctxDone /\ NumCPU = 2 /\ Len(userCommits) = 2
    /\ \A c \in 1..2 : finished(c) /\ \E n \in 1..Len(langWrites[c]) : langWrites[c][n] = 1

====
